---- MODULE Spec2Model ----
(***************************************************************************)
(* UE5Coro promise / scheduling core.                                      *)
(*                                                                         *)
(*   SpecAggregate : FAggregateAwaiter (WhenAny / WhenAll), its Consume    *)
(*                   sub-coroutines and the awaiting parent.               *)
(*   Spec          : FPromise / FAsyncPromise / FLatentPromise, the        *)
(*                   FPendingLatentCoroutine bridge object and the latent  *)
(*                   action manager that owns it.                          *)
(*   SpecCompletion: Spec together with a holder of a FAsyncCoroutine that *)
(*                   uses OnCompletion() or Wait() on it.                  *)
(*   SpecAbility   : FAbilityPromise coroutines next to plain latent ones  *)
(*                   on one callback target.                               *)
(*   SpecInit      : coroutine_traits and the FLatentPromise constructor's *)
(*                   scan of the coroutine's arguments.                    *)
(*                                                                         *)
(* Execution contexts: "gt" is the game thread (serialized), "worker" is   *)
(* any other thread.  A game-thread handler is one atomic action; what a   *)
(* worker does is split at every point where the game thread can observe   *)
(* or change the state it works on.                                        *)
(***************************************************************************)
EXTENDS Integers, FiniteSets, Sequences, TLC

\* ------------------------------------------------------------------ bounds
\* Largest number of awaiters handed to WhenAny / WhenAll.
MaxChildren == 3

\* Coroutines started in one run of the promise model.
NumCoroutines == 2

\* ------------------------------------------------------------------ state
VARIABLES
    \* --- promises (AsyncCoroutine.h, latent promise and bridge object)
    kind,           \* promise_type picked by coroutine_traits: "none"|"async"|"latent"
    frame,          \* coroutine frame: "unstarted"|"suspended"|"running"|"final"|"destroyed"
    handoff,        \* a TAwaiter holds the promise and will call Resume() on it
    LatentFlags,    \* FLatentPromise::LatentFlags, a subset of {LF_Detached, LF_InFinalSuspend}
    bCanceled,      \* FPromise::bCanceled
    ExitReason,     \* FLatentPromise::ExitReason
    bAlive,         \* FPromiseExtras::bAlive
    fired,          \* broadcasts of FPromiseExtras::Continuations
    firedOn,        \* thread of the broadcast
    destroyedOn,    \* thread that destroyed the coroutine frame
    destroyedBy,    \* call that destroyed the coroutine frame
    bodyRan,        \* the body was entered (by the initial start or a resumption)
    LatentInfo,     \* FPendingLatentCoroutine::LatentInfo.UUID (one CallbackTarget)
    Pending,        \* the bridge object: [state, Promise, CurrentAwaiter]
    Response,       \* FLatentResponse of the bridge's last tick: [Done, Link]
    startOutcome,   \* what initial_suspend decided: "none"|"duplicate"|"invalid"|"started"
    heldCancel,     \* Cancel() was called while LF_Detached was set
    notifiedReason, \* reason the action manager notified the bridge object with
    Continuations,  \* delegates bound to FPromiseExtras::Continuations
    obsPc,          \* a holder of a FAsyncCoroutine: "idle"|"subscribed"|"blocked"|"returned"
    obsOn,          \* the coroutine that holder observes, or 0
    obsLate,        \* the holder called OnCompletion/Wait on a complete coroutine
    obsCalls,       \* invocations of the holder's delegate
    waitResult,     \* what Wait returned: "none"|"true"|"false"
    waitAlive,      \* bAlive of the awaited coroutine when Wait returned
    GLatentExitReason, \* the global exit-reason scratch variable
    gtTasks,        \* AsyncTask(ENamedThreads::GameThread, ...) not yet run
    targetValid,    \* IsValid(LatentInfo.CallbackTarget)
    ensureCount,    \* ensureMsgf reports
    checkFailed,    \* checkf conditions found false
    \* --- ability promises (AbilityPromises.cpp)
    bAbility,       \* the promise is a FAbilityPromise (a FLatentPromise subclass)
    DummyId,        \* `static int DummyId` of FAbilityPromise::MakeLatentInfo
    bTriggerLink,   \* final_suspend<bool>: the instantiation the promise ran
    signature,      \* parameter types of the coroutine function (constructor scan)
    \* --- aggregate awaiter (AggregateAwaiters.h)
    aggKind,        \* "any" | "all": which factory built the awaiter
    aggN,           \* sizeof...(Args)
    Data,           \* FData: [Lock, Count, Index, Handle]
    ctorIdx,        \* Idx of the FAggregateAwaiter constructor's fold
    inlineChild,    \* Consume running inside the constructor's fold, or -1
    childPc,        \* position of every Consume sub-coroutine
    childHandle,    \* Consume's local copy `auto Handle = Data->Handle`
    parentPc,       \* position of the coroutine that co_awaits the aggregate
    parentContinued,\* how often the parent went on past the co_await
    parentResumes,  \* how often Handle.promise().Resume() was called
    decremented,    \* children that executed --Data->Count
    firstDec,       \* the child whose decrement came first, or -1
    lockOwner,      \* the child holding Data->Lock, or -1 (free, or the parent)
    indexWrites,    \* how often Data->Index was assigned
    contended,      \* a Consume was spinning on the lock during await_suspend
    resumeInLock    \* a Consume called Resume() while it still held the lock

aggVars == <<aggKind, aggN, Data, ctorIdx, inlineChild, childPc, childHandle,
             parentPc, parentContinued, parentResumes, decremented, firstDec,
             lockOwner, indexWrites, contended, resumeInLock>>

latVars == <<kind, frame, handoff, LatentFlags, bCanceled, ExitReason, bAlive,
             fired, firedOn, destroyedOn, destroyedBy, bodyRan, LatentInfo,
             Pending, Response, startOutcome, heldCancel, notifiedReason,
             Continuations, obsPc, obsOn, obsLate, obsCalls, waitResult,
             waitAlive, GLatentExitReason, gtTasks, targetValid,
             ensureCount, checkFailed, bAbility, DummyId, bTriggerLink,
             signature>>

vars == <<aggVars, latVars>>

\* ============================================================ aggregate
ChildIds == 0 .. (MaxChildren - 1)

Children == { i \in ChildIds : i < aggN }

\* WhenAny: `sizeof...(Args) ? 1 : 0`
WhenAny_Last(n) == n

WhenAny(n) == IF n # 0 THEN 1 ELSE 0

\* WhenAll: `sizeof...(Args)`
WhenAll_First(n) == IF n # 0 THEN 1 ELSE 0

WhenAll(n) == n

\* FData(int Count): Lock free, Index = -1, Handle = std::monostate
FData(count) ==
    [Lock |-> "free", Count |-> count, Index |-> -1, Handle |-> "monostate"]

\* Consume: `if (--Data->Count != 0) co_return;` on the decremented value
CoReturn_Positive(count) == count > 0

CoReturn(count) == count # 0

\* Consume: the std::visit lambda calls Resume() unless it holds a monostate
VisitResumes_Inverted(handle) == handle = "monostate"

VisitResumes(handle) == handle # "monostate"

\* await_ready: ready when the counter is used up
IsReady(d) == d.Count <= 0

AggInit ==
    /\ aggKind \in {"any", "all"}
    /\ aggN \in 0 .. MaxChildren
    /\ Data = FData(IF aggKind = "any" THEN WhenAny(aggN) ELSE WhenAll(aggN))
    /\ ctorIdx = 0
    /\ inlineChild = -1
    /\ childPc = [i \in ChildIds |-> "unstarted"]
    /\ childHandle = [i \in ChildIds |-> "monostate"]
    /\ parentPc = "ctor"
    /\ parentContinued = 0
    /\ parentResumes = 0
    /\ decremented = {}
    /\ firstDec = -1
    /\ lockOwner = -1
    /\ indexWrites = 0
    /\ contended = FALSE
    /\ resumeInLock = FALSE

\* The constructor's fold is blocked while a Consume it called has not returned
\* to it (a Consume returns at its first suspension or at its end).
CtorFree == IF inlineChild \in ChildIds THEN childPc[inlineChild] = "done" ELSE TRUE

\* FAggregateAwaiter(Count, Awaiters...): `Consume(Data, Idx++, Awaiter)` for the
\* next awaiter.  Consume is an eagerly started FAsyncCoroutine: it runs on the
\* constructor's thread up to `co_await Awaiter`, which either suspends it
\* (sync = FALSE: control returns to the fold) or is ready at once (sync = TRUE:
\* Consume goes on inside the fold).
CtorConsume(sync) ==
    /\ parentPc = "ctor"
    /\ ctorIdx < aggN
    /\ CtorFree
    /\ childPc' = [childPc EXCEPT ![ctorIdx] = IF sync THEN "lock" ELSE "awaiting"]
    /\ inlineChild' = IF sync THEN ctorIdx ELSE -1
    /\ ctorIdx' = ctorIdx + 1
    /\ UNCHANGED latVars
    /\ UNCHANGED <<aggKind, aggN, Data, childHandle, parentPc, parentContinued,
                   parentResumes, decremented, firstDec, lockOwner, indexWrites,
                   contended, resumeInLock>>

\* The constructor returns: the parent next evaluates await_ready.
CtorReturn ==
    /\ parentPc = "ctor"
    /\ ctorIdx = aggN
    /\ CtorFree
    /\ parentPc' = "constructed"
    /\ UNCHANGED latVars
    /\ UNCHANGED <<aggKind, aggN, Data, ctorIdx, inlineChild, childPc,
                   childHandle, parentContinued, parentResumes, decremented,
                   firstDec, lockOwner, indexWrites, contended, resumeInLock>>

\* The awaited child completes later, on any thread, and resumes its Consume.
AwaiterCompletes(i) ==
    /\ i \in Children
    /\ childPc[i] = "awaiting"
    /\ childPc' = [childPc EXCEPT ![i] = "lock"]
    /\ UNCHANGED latVars
    /\ UNCHANGED <<aggKind, aggN, Data, ctorIdx, inlineChild, childHandle,
                   parentPc, parentContinued, parentResumes, decremented,
                   firstDec, lockOwner, indexWrites, contended, resumeInLock>>

\* Consume: `UE::TScopeLock _(Data->Lock);` (spins while the lock is taken)
ConsumeLock(i) ==
    /\ i \in Children
    /\ childPc[i] = "lock"
    /\ Data.Lock = "free"
    /\ Data' = [Data EXCEPT !.Lock = "taken"]
    /\ lockOwner' = i
    /\ childPc' = [childPc EXCEPT ![i] = "locked"]
    /\ UNCHANGED latVars
    /\ UNCHANGED <<aggKind, aggN, ctorIdx, inlineChild, childHandle, parentPc,
                   parentContinued, parentResumes, decremented, firstDec,
                   indexWrites, contended, resumeInLock>>

\* Consume's critical section without `_.Unlock()` before std::visit.
ConsumeDecrement_KeepLock(i) ==
    /\ i \in Children
    /\ childPc[i] = "locked"
    /\ decremented' = decremented \cup {i}
    /\ firstDec' = IF firstDec = -1 THEN i ELSE firstDec
    /\ IF CoReturn(Data.Count - 1)
       THEN /\ Data' = [Data EXCEPT !.Count = @ - 1, !.Lock = "free"]
            /\ childPc' = [childPc EXCEPT ![i] = "done"]
            /\ lockOwner' = -1
            /\ UNCHANGED <<childHandle, indexWrites>>
       ELSE /\ Data' = [Data EXCEPT !.Count = @ - 1, !.Index = i]
            /\ childHandle' = [childHandle EXCEPT ![i] = Data.Handle]
            /\ childPc' = [childPc EXCEPT ![i] = "visit"]
            /\ indexWrites' = indexWrites + 1
            /\ UNCHANGED lockOwner
    /\ UNCHANGED latVars
    /\ UNCHANGED <<aggKind, aggN, ctorIdx, inlineChild, parentPc,
                   parentContinued, parentResumes, contended, resumeInLock>>

\* Consume: `if (--Data->Count != 0) co_return;` (the scope lock unlocks), else
\* `Data->Index = Index; auto Handle = Data->Handle; _.Unlock();`
ConsumeDecrement(i) ==
    /\ i \in Children
    /\ childPc[i] = "locked"
    /\ decremented' = decremented \cup {i}
    /\ firstDec' = IF firstDec = -1 THEN i ELSE firstDec
    /\ IF CoReturn(Data.Count - 1)
       THEN /\ Data' = [Data EXCEPT !.Count = @ - 1, !.Lock = "free"]
            /\ childPc' = [childPc EXCEPT ![i] = "done"]
            /\ UNCHANGED <<childHandle, indexWrites>>
       ELSE /\ Data' = [Data EXCEPT !.Count = @ - 1, !.Index = i, !.Lock = "free"]
            /\ childHandle' = [childHandle EXCEPT ![i] = Data.Handle]
            /\ childPc' = [childPc EXCEPT ![i] = "visit"]
            /\ indexWrites' = indexWrites + 1
    /\ lockOwner' = -1
    /\ UNCHANGED latVars
    /\ UNCHANGED <<aggKind, aggN, ctorIdx, inlineChild, parentPc,
                   parentContinued, parentResumes, contended, resumeInLock>>

\* Consume: `std::visit(...)`: Handle.promise().Resume() unless monostate.
ConsumeVisit(i) ==
    /\ i \in Children
    /\ childPc[i] = "visit"
    /\ childPc' = [childPc EXCEPT ![i] = "done"]
    /\ IF VisitResumes(childHandle[i])
       THEN /\ parentResumes' = parentResumes + 1
            /\ parentContinued' = parentContinued + 1
            /\ parentPc' = "continued"
            /\ resumeInLock' = (resumeInLock \/ lockOwner = i)
       ELSE UNCHANGED <<parentResumes, parentContinued, parentPc, resumeInLock>>
    /\ UNCHANGED latVars
    /\ UNCHANGED <<aggKind, aggN, Data, ctorIdx, inlineChild, childHandle,
                   decremented, firstDec, lockOwner, indexWrites, contended>>

\* FAggregateAwaiter::await_ready: takes the lock; ready (and unlocked again) when
\* the counter is used up, otherwise the lock is carried into await_suspend.
await_ready ==
    /\ parentPc = "constructed"
    /\ Data.Lock = "free"
    /\ IF IsReady(Data)
       THEN /\ parentPc' = "continued"
            /\ parentContinued' = parentContinued + 1
            /\ UNCHANGED Data
       ELSE /\ parentPc' = "suspending"
            /\ Data' = [Data EXCEPT !.Lock = "taken"]
            /\ UNCHANGED parentContinued
    /\ UNCHANGED latVars
    /\ UNCHANGED <<aggKind, aggN, ctorIdx, inlineChild, childPc, childHandle,
                   parentResumes, decremented, firstDec, lockOwner, indexWrites,
                   contended, resumeInLock>>

\* FAggregateAwaiter::await_suspend: stores the parent's handle, then unlocks.
await_suspend ==
    /\ parentPc = "suspending"
    /\ Data' = [Data EXCEPT !.Handle = "parent", !.Lock = "free"]
    /\ parentPc' = "suspended"
    /\ contended' = (contended \/ \E i \in Children : childPc[i] = "lock")
    /\ UNCHANGED latVars
    /\ UNCHANGED <<aggKind, aggN, ctorIdx, inlineChild, childPc, childHandle,
                   parentContinued, parentResumes, decremented, firstDec,
                   lockOwner, indexWrites, resumeInLock>>

\* FAnyAwaiter::await_resume -> GetResumerIndex
GetResumerIndex == Data.Index

AggNext ==
    \/ \E sync \in BOOLEAN : CtorConsume(sync)
    \/ CtorReturn
    \/ \E i \in ChildIds : AwaiterCompletes(i)
    \/ \E i \in ChildIds : ConsumeLock(i)
    \/ \E i \in ChildIds : ConsumeDecrement(i)
    \/ \E i \in ChildIds : ConsumeVisit(i)
    \/ await_ready
    \/ await_suspend

\* The promise model is idle while an aggregate awaiter is examined.
LatIdle ==
    /\ kind = [p \in 1 .. NumCoroutines |-> "none"]
    /\ frame = [p \in 1 .. NumCoroutines |-> "unstarted"]
    /\ handoff = [p \in 1 .. NumCoroutines |-> FALSE]
    /\ LatentFlags = [p \in 1 .. NumCoroutines |-> {}]
    /\ bCanceled = [p \in 1 .. NumCoroutines |-> FALSE]
    /\ ExitReason = [p \in 1 .. NumCoroutines |-> "Normal"]
    /\ bAlive = [p \in 1 .. NumCoroutines |-> FALSE]
    /\ fired = [p \in 1 .. NumCoroutines |-> 0]
    /\ firedOn = [p \in 1 .. NumCoroutines |-> "none"]
    /\ destroyedOn = [p \in 1 .. NumCoroutines |-> "none"]
    /\ destroyedBy = [p \in 1 .. NumCoroutines |-> "none"]
    /\ bodyRan = [p \in 1 .. NumCoroutines |-> FALSE]
    /\ LatentInfo = [p \in 1 .. NumCoroutines |-> 0]
    /\ Pending = [p \in 1 .. NumCoroutines |->
                     [state |-> "none", Promise |-> FALSE, CurrentAwaiter |-> FALSE]]
    /\ Response = [p \in 1 .. NumCoroutines |-> [Done |-> FALSE, Link |-> FALSE]]
    /\ startOutcome = [p \in 1 .. NumCoroutines |-> "none"]
    /\ heldCancel = [p \in 1 .. NumCoroutines |-> FALSE]
    /\ notifiedReason = [p \in 1 .. NumCoroutines |-> "none"]
    /\ Continuations = [p \in 1 .. NumCoroutines |-> 0]
    /\ obsPc = "idle"
    /\ obsOn = 0
    /\ obsLate = FALSE
    /\ obsCalls = 0
    /\ waitResult = "none"
    /\ waitAlive = FALSE
    /\ GLatentExitReason = "Normal"
    /\ gtTasks = {}
    /\ targetValid = TRUE
    /\ ensureCount = 0
    /\ checkFailed = {}
    /\ bAbility = [p \in 1 .. NumCoroutines |-> FALSE]
    /\ DummyId = 0
    /\ bTriggerLink = [p \in 1 .. NumCoroutines |-> TRUE]
    /\ signature = [p \in 1 .. NumCoroutines |-> <<>>]

InitAggregate == AggInit /\ LatIdle

SpecAggregate == InitAggregate /\ [][AggNext]_vars

\* ============================================================= promises
Promises == 1 .. NumCoroutines

\* Linkage ids (FLatentActionInfo::UUID), numbered in the order of first use.
UUIDs == 1 .. NumCoroutines

\* FLatentPromise's flag bits
LF_Detached == "LF_Detached"

LF_InFinalSuspend == "LF_InFinalSuspend"

\* The state the handlers below read and return.
World ==
    [kind |-> kind, frame |-> frame, handoff |-> handoff,
     LatentFlags |-> LatentFlags, bCanceled |-> bCanceled,
     ExitReason |-> ExitReason, bAlive |-> bAlive, fired |-> fired,
     firedOn |-> firedOn, destroyedOn |-> destroyedOn,
     destroyedBy |-> destroyedBy, bodyRan |-> bodyRan,
     LatentInfo |-> LatentInfo, Pending |-> Pending, Response |-> Response,
     startOutcome |-> startOutcome, heldCancel |-> heldCancel,
     notifiedReason |-> notifiedReason, Continuations |-> Continuations,
     obsPc |-> obsPc, obsOn |-> obsOn, obsLate |-> obsLate,
     obsCalls |-> obsCalls, waitResult |-> waitResult, waitAlive |-> waitAlive,
     GLatentExitReason |-> GLatentExitReason, gtTasks |-> gtTasks,
     targetValid |-> targetValid,
     ensureCount |-> ensureCount, checkFailed |-> checkFailed,
     bAbility |-> bAbility, DummyId |-> DummyId, bTriggerLink |-> bTriggerLink,
     signature |-> signature]

Commit(w) ==
    /\ kind' = w.kind
    /\ frame' = w.frame
    /\ handoff' = w.handoff
    /\ LatentFlags' = w.LatentFlags
    /\ bCanceled' = w.bCanceled
    /\ ExitReason' = w.ExitReason
    /\ bAlive' = w.bAlive
    /\ fired' = w.fired
    /\ firedOn' = w.firedOn
    /\ destroyedOn' = w.destroyedOn
    /\ destroyedBy' = w.destroyedBy
    /\ bodyRan' = w.bodyRan
    /\ LatentInfo' = w.LatentInfo
    /\ Pending' = w.Pending
    /\ Response' = w.Response
    /\ startOutcome' = w.startOutcome
    /\ heldCancel' = w.heldCancel
    /\ notifiedReason' = w.notifiedReason
    /\ Continuations' = w.Continuations
    /\ obsPc' = w.obsPc
    /\ obsOn' = w.obsOn
    /\ obsLate' = w.obsLate
    /\ obsCalls' = w.obsCalls
    /\ waitResult' = w.waitResult
    /\ waitAlive' = w.waitAlive
    /\ GLatentExitReason' = w.GLatentExitReason
    /\ gtTasks' = w.gtTasks
    /\ targetValid' = w.targetValid
    /\ ensureCount' = w.ensureCount
    /\ checkFailed' = w.checkFailed
    /\ bAbility' = w.bAbility
    /\ DummyId' = w.DummyId
    /\ bTriggerLink' = w.bTriggerLink
    /\ signature' = w.signature
    /\ UNCHANGED aggVars

\* checkf(cond, msg): a false condition is recorded under its message.
Check(w, cond, msg) ==
    IF cond THEN w ELSE [w EXCEPT !.checkFailed = @ \cup {msg}]

\* FPromiseExtras::IsComplete
IsComplete(w, p) == ~w.bAlive[p]

\* FPromise::~FPromise: the coroutine is complete from here on; every delegate
\* bound to Continuations is invoked once, on the destroying thread.
FPromise_Destructor(w, p, thread, by) ==
    LET w1 == Check(w, ~IsComplete(w, p),
                    "Unexpected late/double coroutine destruction")
    IN [w1 EXCEPT !.bAlive[p] = FALSE,
                  !.fired[p] = @ + 1,
                  !.firedOn[p] = thread,
                  !.obsCalls = @ + w.Continuations[p],
                  !.frame[p] = "destroyed",
                  !.destroyedOn[p] = thread,
                  !.destroyedBy[p] = by]

\* Detach that leaves Promise as it is.
Detach_Noop(w, p, thread) == w

\* FPendingLatentCoroutine::Detach
Detach(w, p, thread) ==
    IF thread = "gt"
    THEN [Check(w, w.Pending[p].Promise,
                "Internal error: unexpected double Detach")
             EXCEPT !.Pending[p].Promise = FALSE]
    ELSE [w EXCEPT !.gtTasks = @ \cup {<<"Detach", p>>}]

\* ~FLatentPromise without `GLatentExitReason = ELatentExitReason::Normal`.
FLatentPromise_Destructor_NoReset(w, p, thread, uncaught, by) ==
    LET w1 == Check(w, thread = "gt",
                    "Unexpected latent coroutine destruction off the game thread")
        w3 == IF uncaught THEN Detach(w1, p, thread) ELSE w1
    IN FPromise_Destructor(w3, p, thread, by)

\* FLatentPromise::~FLatentPromise; uncaught = std::uncaught_exceptions() != 0
FLatentPromise_Destructor(w, p, thread, uncaught, by) ==
    LET w1 == Check(w, thread = "gt",
                    "Unexpected latent coroutine destruction off the game thread")
        w2 == [w1 EXCEPT !.GLatentExitReason = "Normal"]
        w3 == IF uncaught THEN Detach(w2, p, thread) ELSE w2
    IN FPromise_Destructor(w3, p, thread, by)

\* ThreadSafeDestroy without the `return` after AsyncTask.
ThreadSafeDestroy_FallThrough(w, p, thread, by) ==
    LET w0 == IF thread # "gt"
              THEN [w EXCEPT !.gtTasks = @ \cup {<<"ThreadSafeDestroy", p>>}]
              ELSE w
        w1 == [w0 EXCEPT !.GLatentExitReason = w.ExitReason[p]]
    IN FLatentPromise_Destructor(w1, p, thread, FALSE, by)

\* ThreadSafeDestroy without the `if (!IsInGameThread())` branch.
ThreadSafeDestroy_AnyThread(w, p, thread, by) ==
    LET w1 == [w EXCEPT !.GLatentExitReason = w.ExitReason[p]]
        w2 == FLatentPromise_Destructor(w1, p, thread, FALSE, by)
    IN Check(w2, w2.GLatentExitReason = "Normal",
             "Internal error: latent exit reason not restored")

\* FLatentPromise::ThreadSafeDestroy
ThreadSafeDestroy(w, p, thread, by) ==
    IF thread # "gt"
    THEN [w EXCEPT !.gtTasks = @ \cup {<<"ThreadSafeDestroy", p>>}]
    ELSE LET w1 == [w EXCEPT !.GLatentExitReason = w.ExitReason[p]]
             w2 == FLatentPromise_Destructor(w1, p, thread, FALSE, by)
         IN Check(w2, w2.GLatentExitReason = "Normal",
                  "Internal error: latent exit reason not restored")

\* AttachToGameThread that leaves the flags as they are.
AttachToGameThread_Noop(w, p, thread) ==
    Check(w, thread = "gt",
          "Internal error: attaching to the GT while not on the GT")

\* FLatentPromise::AttachToGameThread
AttachToGameThread(w, p, thread) ==
    [Check(w, thread = "gt",
           "Internal error: attaching to the GT while not on the GT")
        EXCEPT !.LatentFlags[p] = @ \ {LF_Detached}]

\* DetachFromGameThread that leaves the flags as they are.
DetachFromGameThread_Noop(w, p) == w

\* FLatentPromise::DetachFromGameThread
DetachFromGameThread(w, p) ==
    [w EXCEPT !.LatentFlags[p] = @ \cup {LF_Detached}]

\* FPendingLatentCoroutine::SetCurrentAwaiter (a non-null awaiter)
Pending_SetCurrentAwaiter(w, p, thread) ==
    LET w1 == Check(w, thread = "gt",
                    "Latent awaiters may only be used on the game thread")
        w2 == Check(w1, ~w1.Pending[p].CurrentAwaiter, "Unexpected double await")
    IN [w2 EXCEPT !.Pending[p].CurrentAwaiter = TRUE]

\* FLatentPromise::SetCurrentAwaiter
SetCurrentAwaiter(w, p, thread) ==
    LET w1 == Check(w, thread = "gt",
                    "Latent awaiters may only be used on the game thread")
        w2 == Check(w1, w1.LatentFlags[p] = {},
                    "Unexpected state in latent coroutine")
    IN Pending_SetCurrentAwaiter(w2, p, thread)

\* final_suspend with `LatentFlags |= LF_InFinalSuspend`.
final_suspend_KeepDetached(w, p) ==
    [w EXCEPT !.LatentFlags[p] = @ \cup {LF_InFinalSuspend}, !.frame[p] = "final"]

\* FLatentPromise::final_suspend: flags overwritten, suspend_always
final_suspend(w, p) ==
    [w EXCEPT !.LatentFlags[p] = {LF_InFinalSuspend}, !.frame[p] = "final"]

\* FLatentPromise::final_suspend<bLink>, the template FAbilityPromise calls:
\* FLatentPromise's final suspend, with the link of the frame response
\* triggered only by the instantiation with bLink = true.
FLatentPromise_final_suspend_T(w, p, bLink) ==
    [final_suspend(w, p) EXCEPT !.bTriggerLink[p] = bLink]

\* FAbilityPromise::final_suspend returning Super::final_suspend<true>().
FAbilityPromise_final_suspend_Link(w, p) ==
    FLatentPromise_final_suspend_T(w, p, TRUE)

\* FAbilityPromise::final_suspend: `return Super::final_suspend<false>();`
FAbilityPromise_final_suspend(w, p) ==
    FLatentPromise_final_suspend_T(w, p, FALSE)

\* TAwaiter::await_suspend without the DetachFromGameThread call.
TAwaiter_await_suspend_NoDetach(w, p) ==
    [w EXCEPT !.handoff[p] = TRUE, !.frame[p] = "suspended"]

\* TAwaiter::await_suspend: a latent promise detaches first, then Suspend()
\* hands the promise to the awaiter's own context.
TAwaiter_await_suspend(w, p) ==
    LET w1 == IF w.kind[p] = "latent" THEN DetachFromGameThread(w, p) ELSE w
    IN [w1 EXCEPT !.handoff[p] = TRUE, !.frame[p] = "suspended"]

\* The body runs from its resumption to `outcome`:
\*   "latent" : co_await of a FLatentAwaiter (polled by the bridge's tick)
\*   "async"  : co_await of a TAwaiter (resumed by another context)
\*   "finish" : the body ends; FAsyncPromise::final_suspend never suspends,
\*              so an async frame is destroyed here
\*   "throw"  : an exception leaves the body and the call that started the
\*              coroutine; the frame is destroyed while it unwinds
BodyStep(w, p, thread, outcome) ==
    CASE outcome = "latent" ->
           [SetCurrentAwaiter(w, p, thread) EXCEPT !.frame[p] = "suspended"]
      [] outcome = "async" -> TAwaiter_await_suspend(w, p)
      [] outcome = "finish" ->
           IF w.kind[p] = "latent"
           THEN IF w.bAbility[p]
                THEN FAbilityPromise_final_suspend(w, p)
                ELSE final_suspend(w, p)
           ELSE FPromise_Destructor(w, p, thread, "final_suspend")
      [] outcome = "throw" ->
           IF w.kind[p] = "latent"
           THEN FLatentPromise_Destructor(w, p, thread, TRUE, "uncaught exception")
           ELSE FPromise_Destructor(w, p, thread, "uncaught exception")

\* coroutine_handle::resume(): on the game thread the body runs to its next
\* suspension within the handler that resumed it; on another thread it runs
\* concurrently with the game thread (WorkerBody ends that run).
RunBody(w, p, thread, outcome) ==
    LET w1 == [w EXCEPT !.bodyRan[p] = TRUE]
    IN IF thread = "gt"
       THEN BodyStep(w1, p, thread, outcome)
       ELSE [w1 EXCEPT !.frame[p] = "running"]

\* FPromise::Cancel
Cancel(w, p) ==
    [w EXCEPT !.bCanceled[p] = TRUE,
              !.heldCancel[p] = @ \/ (LF_Detached \in w.LatentFlags[p])]

\* FPromise::Resume: a canceled coroutine self-destructs instead of resuming.
FPromise_Resume(w, p, thread, bBypassCancellationHolds, outcome) ==
    LET w1 == Check(w, ~IsComplete(w, p),
                    "Attempting to resume completed coroutine")
    IN IF w1.bCanceled[p]
       THEN ThreadSafeDestroy(w1, p, thread,
                IF bBypassCancellationHolds THEN "~FPendingLatentCoroutine"
                                            ELSE "Resume")
       ELSE RunBody(w1, p, thread, outcome)

\* FLatentPromise::Resume without `if (LatentFlags & LF_Detached) return;`.
FLatentPromise_Resume_NoHold(w, p, thread, bBypassCancellationHolds, outcome) ==
    LET w1 == IF LF_Detached \in w.LatentFlags[p] /\ thread = "gt"
              THEN AttachToGameThread(w, p, thread)
              ELSE w
    IN FPromise_Resume(w1, p, thread, bBypassCancellationHolds, outcome)

\* FLatentPromise::Resume
FLatentPromise_Resume(w, p, thread, bBypassCancellationHolds, outcome) ==
    LET w0 == IF bBypassCancellationHolds
              THEN Check(w, thread = "gt" /\ w.bCanceled[p],
                         "Internal error: wrong state for bypass request")
              ELSE w
    IN IF bBypassCancellationHolds /\ LF_Detached \in w0.LatentFlags[p]
       THEN w0
       ELSE LET w1 == IF LF_Detached \in w0.LatentFlags[p] /\ thread = "gt"
                      THEN AttachToGameThread(w0, p, thread)
                      ELSE w0
            IN FPromise_Resume(w1, p, thread, bBypassCancellationHolds, outcome)

\* FLatentPromise::SetExitReason
SetExitReason(w, p, Reason) ==
    [Check(w, w.ExitReason[p] = "Normal",
           "Internal error: setting conflicting exit reasons")
        EXCEPT !.ExitReason[p] = Reason]

\* The DoneIf condition without `!bDetached`.
RespondDone_IgnoreDetached(canceled, flags) ==
    canceled \/ LF_InFinalSuspend \in flags

\* FLatentPromise::Respond: `if (bCanceled && !bDetached || bFinalSuspend)`
RespondDone(canceled, flags) ==
    (canceled /\ LF_Detached \notin flags) \/ LF_InFinalSuspend \in flags

\* FLatentPromise::Respond: `if (bFinalSuspend) Response.TriggerLink(...)`
RespondLink(flags) == LF_InFinalSuspend \in flags

\* FLatentPromise::Respond; the link is the one final_suspend<bool> asked for
\* (always triggered by FLatentPromise's own final_suspend).
Respond(w, p) ==
    LET w1 == Check(w, ~IsComplete(w, p),
                    "Internal error: completed promise is still polled")
    IN [w1 EXCEPT !.Response[p] =
                      [Done |-> RespondDone(w.bCanceled[p], w.LatentFlags[p]),
                       Link |-> /\ RespondLink(w.LatentFlags[p])
                                /\ w.bTriggerLink[p]]]

\* UpdateOperation with `CurrentAwaiter = nullptr` after the Resume() call.
UpdateOperation_ClearAfter(w, p, ready, outcome) ==
    IF ~w.Pending[p].Promise
    THEN [w EXCEPT !.Response[p] = [Done |-> TRUE, Link |-> FALSE]]
    ELSE LET w1 == IF w.Pending[p].CurrentAwaiter /\ ready
                   THEN [FLatentPromise_Resume(w, p, "gt", FALSE, outcome)
                            EXCEPT !.Pending[p].CurrentAwaiter = FALSE]
                   ELSE w
         IN Respond(w1, p)

\* UpdateOperation without the `if (UNLIKELY(!Promise))` early return.
UpdateOperation_NoPromiseTest(w, p, ready, outcome) ==
    LET w1 == IF w.Pending[p].CurrentAwaiter /\ ready
              THEN FLatentPromise_Resume(
                       [w EXCEPT !.Pending[p].CurrentAwaiter = FALSE],
                       p, "gt", FALSE, outcome)
              ELSE w
    IN Respond(w1, p)

\* FPendingLatentCoroutine::UpdateOperation; ready = CurrentAwaiter->ShouldResume()
UpdateOperation(w, p, ready, outcome) ==
    IF ~w.Pending[p].Promise
    THEN [w EXCEPT !.Response[p] = [Done |-> TRUE, Link |-> FALSE]]
    ELSE LET w1 == IF w.Pending[p].CurrentAwaiter /\ ready
                   THEN FLatentPromise_Resume(
                            [w EXCEPT !.Pending[p].CurrentAwaiter = FALSE],
                            p, "gt", FALSE, outcome)
                   ELSE w
         IN Respond(w1, p)

\* ~FPendingLatentCoroutine without `if (LIKELY(Promise))`.
Pending_Destructor_Unconditional(w, p) ==
    [FLatentPromise_Resume(Cancel(w, p), p, "gt", TRUE, "finish")
        EXCEPT !.Pending[p].state = "deleted"]

\* ~FPendingLatentCoroutine that destroys the promise itself instead of
\* calling Resume(true).
Pending_Destructor_Destroys(w, p) ==
    LET w1 == IF w.Pending[p].Promise
              THEN ThreadSafeDestroy(Cancel(w, p), p, "gt", "~FPendingLatentCoroutine")
              ELSE w
    IN [w1 EXCEPT !.Pending[p].state = "deleted"]

\* FPendingLatentCoroutine::~FPendingLatentCoroutine
Pending_Destructor(w, p) ==
    LET w1 == IF w.Pending[p].Promise
              THEN FLatentPromise_Resume(Cancel(w, p), p, "gt", TRUE, "finish")
              ELSE w
    IN [w1 EXCEPT !.Pending[p].state = "deleted"]

\* NotifyActionAborted / NotifyObjectDestroyed without `if (LIKELY(Promise))`.
Notify_Unconditional(w, p, Reason) == SetExitReason(w, p, Reason)

\* FPendingLatentCoroutine::NotifyActionAborted / NotifyObjectDestroyed
Notify(w, p, Reason) ==
    IF w.Pending[p].Promise THEN SetExitReason(w, p, Reason) ELSE w

\* FLatentPromise::ThreadSafeDestroy on the game thread for a frame that holds
\* a local whose destructor makes the action manager remove the registered
\* action of coroutine q: Handle.destroy() destroys the locals, which notifies
\* and deletes q's bridge object (destroying q's promise through a nested
\* ThreadSafeDestroy when it is attached), and then p's promise.
NestedThreadSafeDestroy(w, p, q, Reason, by) ==
    LET w1 == [w EXCEPT !.GLatentExitReason = w.ExitReason[p]]
        w2 == Pending_Destructor(
                  [Notify(w1, q, Reason) EXCEPT !.notifiedReason[q] = Reason], q)
        w3 == FLatentPromise_Destructor(w2, p, "gt", FALSE, by)
    IN Check(w3, w3.GLatentExitReason = "Normal",
             "Internal error: latent exit reason not restored")

\* FLatentPromise::CreateLatentAction(FLatentActionInfo&&)
FLatentPromise_CreateLatentAction(w, p) ==
    [Check(w, w.Pending[p].state = "none",
           "Internal error: multiple latent infos were not prevented")
        EXCEPT !.Pending[p] = [state |-> "created", Promise |-> TRUE,
                               CurrentAwaiter |-> FALSE]]

\* FLatentPromise::Init(): the end of the constructor's scan
FLatentPromise_Init(w, p) ==
    Check(w, w.Pending[p].state # "none",
          "Internal error: wrong coroutine promise type used")

\* FLatentPromise::CreateLatentAction(FLatentActionInfo&&) followed by Init()
CreateLatentAction(w, p) ==
    FLatentPromise_Init(FLatentPromise_CreateLatentAction(w, p), p)

\* FLatentActionManager::FindExistingAction(CallbackTarget, UUID)
FindExistingAction(w, uuid) ==
    \E q \in Promises :
        /\ w.Pending[q].state = "registered"
        /\ w.LatentInfo[q] = uuid

\* initial_suspend without the FindExistingAction test.
initial_suspend_NoDuplicateCheck(w, p) ==
    IF ~w.targetValid
    THEN [Action |-> "Destroy",
          w |-> [w EXCEPT !.startOutcome[p] = "invalid", !.ensureCount = @ + 1]]
    ELSE [Action |-> "Resume",
          w |-> [w EXCEPT !.startOutcome[p] = "started",
                          !.Pending[p].state = "registered"]]

\* initial_suspend with the target test before the FindExistingAction test.
initial_suspend_ValidityFirst(w, p) ==
    IF ~w.targetValid
    THEN [Action |-> "Destroy",
          w |-> [w EXCEPT !.startOutcome[p] = "invalid", !.ensureCount = @ + 1]]
    ELSE IF FindExistingAction(w, w.LatentInfo[p])
    THEN [Action |-> "Destroy", w |-> [w EXCEPT !.startOutcome[p] = "duplicate"]]
    ELSE [Action |-> "Resume",
          w |-> [w EXCEPT !.startOutcome[p] = "started",
                          !.Pending[p].state = "registered"]]

\* FLatentPromise::initial_suspend: the action of the FInitialSuspend returned
initial_suspend(w, p) ==
    IF FindExistingAction(w, w.LatentInfo[p])
    THEN [Action |-> "Destroy", w |-> [w EXCEPT !.startOutcome[p] = "duplicate"]]
    ELSE IF ~w.targetValid
    THEN [Action |-> "Destroy",
          w |-> [w EXCEPT !.startOutcome[p] = "invalid", !.ensureCount = @ + 1]]
    ELSE [Action |-> "Resume",
          w |-> [w EXCEPT !.startOutcome[p] = "started",
                          !.Pending[p].state = "registered"]]

\* FInitialSuspend::await_suspend whose Resume case leaves the frame suspended.
FInitialSuspend_await_suspend_Lazy(w, p, Action, thread, outcome) ==
    IF Action = "Resume"
    THEN w
    ELSE IF w.kind[p] = "latent"
         THEN FLatentPromise_Destructor(w, p, thread, FALSE, "initial_suspend")
         ELSE FPromise_Destructor(w, p, thread, "initial_suspend")

\* FInitialSuspend::await_suspend
FInitialSuspend_await_suspend(w, p, Action, thread, outcome) ==
    IF Action = "Resume"
    THEN IF w.kind[p] = "latent"
         THEN FLatentPromise_Resume(w, p, thread, FALSE, outcome)
         ELSE FPromise_Resume(w, p, thread, FALSE, outcome)
    ELSE IF w.kind[p] = "latent"
         THEN FLatentPromise_Destructor(w, p, thread, FALSE, "initial_suspend")
         ELSE FPromise_Destructor(w, p, thread, "initial_suspend")

\* ------------------------------------------------------------- actions
\* What the body of p may do when it runs on `thread`; `first` is the run that
\* initial_suspend started.  A FLatentAwaiter needs the game thread; an exception
\* destroys the frame only while it unwinds the call that started the coroutine.
BodyOutcomes(k, thread, first) ==
    {"finish", "async"}
    \cup (IF k = "latent" /\ thread = "gt" THEN {"latent"} ELSE {})
    \cup (IF first /\ thread = "gt" THEN {"throw"} ELSE {})

\* Coroutines are started in the order of their ids.
NextToStart(p) ==
    /\ frame[p] = "unstarted"
    /\ \A q \in Promises : q < p => frame[q] # "unstarted"

\* A coroutine with a FLatentActionInfo parameter is called on the game thread
\* (linkage ids are numbered in the order of their first use):
\* FLatentPromise(Args...) -> Init -> CreateLatentAction, get_return_object,
\* then initial_suspend and FInitialSuspend::await_suspend.
StartLatent(p, uuid, outcome) ==
    /\ NextToStart(p)
    /\ uuid <= p
    /\ outcome \in BodyOutcomes("latent", "gt", TRUE)
    /\ LET w0 == [World EXCEPT !.kind[p] = "latent", !.bAlive[p] = TRUE,
                               !.frame[p] = "suspended", !.LatentInfo[p] = uuid]
           w1 == CreateLatentAction(w0, p)
           is == initial_suspend(w1, p)
       IN Commit(FInitialSuspend_await_suspend(is.w, p, is.Action, "gt", outcome))

\* A coroutine without FLatentActionInfo is called on any thread:
\* FAsyncPromise::initial_suspend always resumes.
StartAsync(p, thread, outcome) ==
    /\ NextToStart(p)
    /\ outcome \in BodyOutcomes("async", thread, TRUE)
    /\ LET w0 == [World EXCEPT !.kind[p] = "async", !.bAlive[p] = TRUE,
                               !.frame[p] = "suspended"]
       IN Commit(FInitialSuspend_await_suspend(w0, p, "Resume", thread, outcome))

\* FLatentActionManager ticks a registered action; an action whose response
\* is DoneIf(true) is removed from the list and deleted before the tick returns.
Tick(p, ready, outcome) ==
    /\ Pending[p].state = "registered"
    /\ ready => (Pending[p].Promise /\ Pending[p].CurrentAwaiter)
    /\ outcome \in (IF ready THEN BodyOutcomes("latent", "gt", FALSE) ELSE {"finish"})
    /\ LET w1 == UpdateOperation(World, p, ready, outcome)
       IN Commit(IF w1.Response[p].Done THEN Pending_Destructor(w1, p) ELSE w1)

\* FLatentActionManager removes a registered action: its owner was destroyed
\* (Reason = "ObjectDestroyed") or the action was aborted; the bridge object
\* is notified and then deleted.
RemoveAction(p, Reason) ==
    /\ Pending[p].state = "registered"
    /\ Reason = "ObjectDestroyed" => ~targetValid
    /\ LET w1 == [Notify(World, p, Reason) EXCEPT !.notifiedReason[p] = Reason]
       IN Commit(Pending_Destructor(w1, p))

\* The callback target becomes invalid (destroyed or marked garbage).
InvalidateTarget ==
    /\ targetValid
    /\ Commit([World EXCEPT !.targetValid = FALSE])

\* The context a TAwaiter handed the promise to calls Resume() on it.
AwaiterResume(p, thread, outcome) ==
    /\ handoff[p]
    /\ outcome \in (IF bCanceled[p] THEN {"finish"}
                   ELSE BodyOutcomes(kind[p], thread, FALSE))
    /\ LET w0 == [World EXCEPT !.handoff[p] = FALSE]
       IN Commit(IF kind[p] = "latent"
                 THEN FLatentPromise_Resume(w0, p, thread, FALSE, outcome)
                 ELSE FPromise_Resume(w0, p, thread, FALSE, outcome))

\* A body running off the game thread reaches its next suspension or its end.
WorkerBody(p, outcome) ==
    /\ frame[p] = "running"
    /\ outcome \in BodyOutcomes(kind[p], "worker", FALSE)
    /\ Commit(BodyStep(World, p, "worker", outcome))

\* The game thread runs a task posted with AsyncTask(ENamedThreads::GameThread).
RunGameThreadTask(t) ==
    /\ t \in gtTasks
    /\ LET w0 == [World EXCEPT !.gtTasks = @ \ {t}]
       IN Commit(IF t[1] = "ThreadSafeDestroy"
                 THEN ThreadSafeDestroy(w0, t[2], "gt", "AsyncTask")
                 ELSE Detach(w0, t[2], "gt"))

\* FAsyncCoroutine::OnCompletion().Add(...) by a holder of p's coroutine object
OnCompletion(p) ==
    /\ obsPc = "idle"
    /\ kind[p] # "none"
    /\ Commit([World EXCEPT !.Continuations[p] = @ + 1,
                            !.obsPc = "subscribed",
                            !.obsOn = p,
                            !.obsLate = IsComplete(World, p)])

\* FAsyncCoroutine::Wait is called off the game thread: a complete coroutine
\* makes it return true at once, otherwise it binds a delegate that triggers
\* its event and blocks on the event.
Wait(p) ==
    /\ obsPc = "idle"
    /\ kind[p] # "none"
    /\ Commit(IF IsComplete(World, p)
              THEN [World EXCEPT !.obsPc = "returned", !.obsOn = p,
                                 !.obsLate = TRUE, !.waitResult = "true",
                                 !.waitAlive = FALSE]
              ELSE [World EXCEPT !.Continuations[p] = @ + 1,
                                 !.obsPc = "blocked", !.obsOn = p])

\* FAsyncCoroutine::Wait returns: true once the event was triggered, false when
\* WaitTimeMilliseconds elapsed without it.
WaitReturn(timeout) ==
    /\ obsPc = "blocked"
    /\ timeout <=> obsCalls = 0
    /\ Commit([World EXCEPT !.obsPc = "returned",
                            !.waitResult = IF timeout THEN "false" ELSE "true",
                            !.waitAlive = bAlive[obsOn]])

Outcomes == {"latent", "async", "finish", "throw"}

Threads == {"gt", "worker"}

Tasks == {"ThreadSafeDestroy", "Detach"} \X Promises

Init ==
    /\ LatIdle
    /\ aggKind = "all"
    /\ aggN = 0
    /\ Data = FData(0)
    /\ ctorIdx = 0
    /\ inlineChild = -1
    /\ childPc = [i \in ChildIds |-> "unstarted"]
    /\ childHandle = [i \in ChildIds |-> "monostate"]
    /\ parentPc = "ctor"
    /\ parentContinued = 0
    /\ parentResumes = 0
    /\ decremented = {}
    /\ firstDec = -1
    /\ lockOwner = -1
    /\ indexWrites = 0
    /\ contended = FALSE
    /\ resumeInLock = FALSE

Next ==
    \/ \E p \in Promises, uuid \in UUIDs, o \in Outcomes : StartLatent(p, uuid, o)
    \/ \E p \in Promises, t \in Threads, o \in Outcomes : StartAsync(p, t, o)
    \/ \E p \in Promises, ready \in BOOLEAN, o \in Outcomes : Tick(p, ready, o)
    \/ \E p \in Promises, r \in {"ActionAborted", "ObjectDestroyed"} :
           RemoveAction(p, r)
    \/ InvalidateTarget
    \/ \E p \in Promises, t \in Threads, o \in Outcomes : AwaiterResume(p, t, o)
    \/ \E p \in Promises, o \in Outcomes : WorkerBody(p, o)
    \/ \E t \in Tasks : RunGameThreadTask(t)

Spec == Init /\ [][Next]_vars

\* The coroutines together with a holder of one coroutine object that
\* subscribes to its completion or waits for it.
NextCompletion ==
    \/ Next
    \/ \E p \in Promises : OnCompletion(p)
    \/ \E p \in Promises : Wait(p)
    \/ \E timeout \in BOOLEAN : WaitReturn(timeout)

SpecCompletion == Init /\ [][NextCompletion]_vars

\* ------------------------------------------------ the constructor's scan
\* Longest parameter list of a coroutine function.
MaxArgs == 2

\* Parameter types, as far as coroutine_traits and Init tell them apart:
\*   "UObject"           a type convertible to const UObject& or const UObject*
\*   "FLatentActionInfo" FLatentActionInfo itself (by value or by reference)
\*   "Convertible"       another type convertible to FLatentActionInfo (a
\*                       struct derived from it, a type with a conversion operator)
\*   "Other"             any other type
ArgTypes == {"UObject", "FLatentActionInfo", "Convertible", "Other"}

\* std::is_convertible_v<Args, FLatentActionInfo>
IsConvertibleToLatentInfo(t) == t \in {"FLatentActionInfo", "Convertible"}

\* coroutine_traits::LatentInfoCount: (0 + ... + is_convertible_v<Args, FLatentActionInfo>)
LatentInfoCount(sig) ==
    Cardinality({i \in DOMAIN sig : IsConvertibleToLatentInfo(sig[i])})

\* static_assert(LatentInfoCount <= 1): the parameter lists that compile
Signatures ==
    { sig \in UNION { [1 .. n -> ArgTypes] : n \in 0 .. MaxArgs } :
        LatentInfoCount(sig) <= 1 }

\* coroutine_traits::promise_type
promise_type(sig) == IF LatentInfoCount(sig) # 0 THEN "latent" ELSE "async"

\* FLatentPromise::Init(Args...): overload resolution picks
\* Init(FLatentActionInfo, T&...) for an argument of type FLatentActionInfo
\* (the more specialised of two exact matches) and Init(T&, A&...) for every
\* other type (an exact match beats the conversion to FLatentActionInfo); that
\* overload or Init(const UObject*, T&...) takes a UObject for the world and
\* skips anything else; Init() ends the scan.
RECURSIVE Init_Args(_, _, _)
Init_Args(w, p, args) ==
    IF args = <<>>
    THEN FLatentPromise_Init(w, p)
    ELSE IF Head(args) = "FLatentActionInfo"
         THEN Init_Args(FLatentPromise_CreateLatentAction(
                            Check(w, w.Pending[p].state = "none",
                                  "check(!PendingLatentCoroutine)"), p),
                        p, Tail(args))
         ELSE Init_Args(w, p, Tail(args))

\* A coroutine function with parameter list sig is called: coroutine_traits
\* picks the promise type and the promise is constructed from the arguments
\* (FLatentPromise(T&&...) -> Init(Args...)).
Construct(p, sig) ==
    /\ kind[p] = "none"
    /\ \A q \in Promises : q < p => kind[q] # "none"
    /\ sig \in Signatures
    /\ LET w0 == [World EXCEPT !.kind[p] = promise_type(sig),
                               !.bAlive[p] = TRUE,
                               !.signature[p] = sig]
       IN Commit(IF promise_type(sig) = "latent"
                 THEN Init_Args(w0, p, sig)
                 ELSE w0)

NextInit == \E p \in Promises, sig \in Signatures : Construct(p, sig)

SpecInit == Init /\ [][NextInit]_vars

\* ---------------------------------------------------- ability promises
\* The largest value of `int`.
INT_MAX == 2147483647

\* MakeLatentInfo with `DummyId` in place of `DummyId++`.
MakeLatentInfo_NoIncrement(w) == [UUID |-> w.DummyId, w |-> w]

\* FAbilityPromise::MakeLatentInfo: `return {0, DummyId++, TEXT("None"), &Task};`
\* (Linkage 0, UUID DummyId, ExecutionFunction "None", CallbackTarget the
\* task); incrementing an int that holds INT_MAX is undefined and recorded.
MakeLatentInfo(w) ==
    LET w1 == Check(w, w.DummyId < INT_MAX, "signed overflow of DummyId")
    IN [UUID |-> w.DummyId,
        w |-> [w1 EXCEPT !.DummyId = IF @ < INT_MAX THEN @ + 1 ELSE -INT_MAX - 1]]

\* An ability coroutine is started from the ability's activation, on the game
\* thread: FAbilityPromise(Target) : Super(Target, MakeLatentInfo(Target)),
\* that is FLatentPromise(Args...) -> Init -> CreateLatentAction, then
\* initial_suspend and FInitialSuspend::await_suspend.
StartAbility(p, outcome) ==
    /\ NextToStart(p)
    /\ outcome \in BodyOutcomes("latent", "gt", TRUE)
    /\ LET mk == MakeLatentInfo(World)
           w0 == [mk.w EXCEPT !.kind[p] = "latent", !.bAbility[p] = TRUE,
                              !.bAlive[p] = TRUE, !.frame[p] = "suspended",
                              !.LatentInfo[p] = mk.UUID]
           w1 == Check(CreateLatentAction(w0, p), TRUE,
                       "Internal error: Expected to start on the game thread")
           is == initial_suspend(w1, p)
       IN Commit(FInitialSuspend_await_suspend(is.w, p, is.Action, "gt", outcome))

\* Ability coroutines and plain latent coroutines on one callback target.
NextAbility ==
    \/ \E p \in Promises, o \in Outcomes : StartAbility(p, o)
    \/ \E p \in Promises, uuid \in UUIDs, o \in Outcomes : StartLatent(p, uuid, o)
    \/ \E p \in Promises, ready \in BOOLEAN, o \in Outcomes : Tick(p, ready, o)
    \/ \E p \in Promises, r \in {"ActionAborted", "ObjectDestroyed"} :
           RemoveAction(p, r)
    \/ InvalidateTarget
    \/ \E p \in Promises, t \in Threads, o \in Outcomes : AwaiterResume(p, t, o)
    \/ \E p \in Promises, o \in Outcomes : WorkerBody(p, o)
    \/ \E t \in Tasks : RunGameThreadTask(t)

SpecAbility == Init /\ [][NextAbility]_vars

\* =============================================================== claims
\* Every Consume ran to its end and the parent went through the co_await.
AggSettled ==
    /\ \A i \in Children : childPc[i] = "done"
    /\ parentPc \in {"suspended", "continued"}

\* C1: WhenAll over N >= 0 children, in every interleaving of synchronous and
\* later child completions: the parent continues at most once, never before all
\* N Consume sub-coroutines decremented the counter, exactly once when all of
\* them are through; with N = 0 it continues from await_ready without suspending.
C1_WhenAllResumesOnceAfterAll ==
    aggKind = "all" =>
        /\ parentContinued <= 1
        /\ parentContinued = 1 => decremented = Children
        /\ AggSettled => parentContinued = 1
        /\ (aggN = 0 /\ parentPc \notin {"ctor", "constructed"}) =>
               (parentPc = "continued" /\ parentContinued = 1 /\ parentResumes = 0)

\* C1 witness: three children, the parent suspended and was resumed by the last.
C1_Witness ==
    /\ aggKind = "all"
    /\ aggN >= 2
    /\ decremented = Children
    /\ parentResumes = 1
    /\ parentContinued = 1

\* C2: WhenAny over N >= 1 children: the parent continues at most once, exactly
\* once when the children are through, the index it reads in await_resume is the
\* position of the child whose decrement came first, and Data->Index is
\* assigned only once, so later completions change neither.
C2_WhenAnyResumesOnceWithFirstIndex ==
    (aggKind = "any" /\ aggN >= 1) =>
        /\ parentContinued <= 1
        /\ indexWrites <= 1
        /\ parentContinued = 1 => (firstDec \in Children /\ GetResumerIndex = firstDec)
        /\ Data.Index # -1 => Data.Index = firstDec
        /\ AggSettled => parentContinued = 1

\* C2 witness: the second argument finished first and resumed the suspended
\* parent; another child completed afterwards.
C2_Witness ==
    /\ aggKind = "any"
    /\ aggN >= 2
    /\ parentResumes = 1
    /\ parentContinued = 1
    /\ GetResumerIndex = 1
    /\ Cardinality(decremented) >= 2

PromiseState(q) ==
    <<kind[q], frame[q], handoff[q], LatentFlags[q], bCanceled[q], ExitReason[q],
      bAlive[q], fired[q], bodyRan[q], LatentInfo[q], Pending[q], Response[q]>>

\* Coroutine p is being started as a latent coroutine in this step.
LatentStart(p) == frame[p] = "unstarted" /\ kind'[p] = "latent"

\* A bridge object with the linkage id p is started with is still registered.
DuplicateStart(p) ==
    \E q \in Promises : Pending[q].state = "registered" /\ LatentInfo[q] = LatentInfo'[p]

\* C4: a latent coroutine started with a (target, id) pair whose earlier action
\* is still registered is destroyed in initial_suspend without its body running
\* and without being registered; the step changes nothing of any other
\* coroutine, and no two registered actions ever share their pair.
C4_DuplicateSuppressed ==
    /\ [](\A p, q \in Promises :
             (p # q /\ Pending[p].state = "registered" /\ Pending[q].state = "registered")
                 => LatentInfo[p] # LatentInfo[q])
    /\ [][\A p \in Promises :
             (LatentStart(p) /\ DuplicateStart(p)) =>
                 /\ startOutcome'[p] = "duplicate"
                 /\ frame'[p] = "destroyed"
                 /\ destroyedBy'[p] = "initial_suspend"
                 /\ ~bodyRan'[p]
                 /\ Pending'[p].state = "created"
                 /\ \A q \in Promises \ {p} : PromiseState(q)' = PromiseState(q)]_vars

\* C4 witness: the second coroutine was suppressed as a duplicate of the first,
\* which is still registered and alive after having run.
C4_Witness ==
    /\ startOutcome[2] = "duplicate"
    /\ frame[2] = "destroyed"
    /\ ~bodyRan[2]
    /\ LatentInfo[2] = LatentInfo[1]
    /\ Pending[1].state = "registered"
    /\ bodyRan[1]
    /\ bAlive[1]

Quiescent(p) ==
    /\ ~handoff[p]
    /\ frame[p] # "running"
    /\ \A t \in gtTasks : t[2] # p

\* C6: once the action manager deleted the bridge object of a started latent
\* coroutine and nothing is left to run for it, the coroutine is complete:
\* bAlive is false, the signal fired exactly once, and a promise that was
\* notified holds the notified reason.
C6_BridgeDestructionCompletes ==
    \A p \in Promises :
        (Pending[p].state = "deleted" /\ Quiescent(p)) =>
            /\ ~bAlive[p]
            /\ fired[p] = 1
            /\ (notifiedReason[p] # "none" /\ destroyedBy[p] # "uncaught exception")
                   => ExitReason[p] = notifiedReason[p]

C9_SuppressedOrStarted ==
    /\ [][\A p \in Promises : LatentStart(p) =>
             LET suppressed == /\ frame'[p] = "destroyed"
                               /\ destroyedBy'[p] = "initial_suspend"
                               /\ ~bodyRan'[p]
                               /\ Pending'[p].state = "created"
                 started == bodyRan'[p] /\ Pending'[p].state = "registered"
             IN /\ suppressed <=> (DuplicateStart(p) \/ ~targetValid)
                /\ started <=> ~suppressed
                /\ DuplicateStart(p) =>
                       (startOutcome'[p] = "duplicate" /\ ensureCount' = ensureCount)
                /\ (~DuplicateStart(p) /\ ~targetValid) =>
                       (startOutcome'[p] = "invalid" /\ ensureCount' = ensureCount + 1)]_vars
    /\ [][\A p \in Promises :
             (Pending[p].state # "registered" /\ Pending'[p].state = "registered")
                 => LatentStart(p)]_vars

\* C9 witness: one coroutine was registered and started, the next one was
\* refused for its invalid target.
C9_Witness ==
    /\ startOutcome[1] = "started"
    /\ bodyRan[1]
    /\ startOutcome[2] = "invalid"
    /\ frame[2] = "destroyed"
    /\ ~bodyRan[2]
    /\ Pending[2].state = "created"
    /\ ensureCount = 1

\* Checks that fail when a destroyed promise is used.
UseAfterDestroy ==
    {"Attempting to resume completed coroutine",
     "Unexpected late/double coroutine destruction",
     "Internal error: completed promise is still polled",
     "Internal error: unexpected double Detach"}

\* C10: a latent promise destroyed by an exception leaving its body is complete
\* (signal fired once), the bridge object's Promise is null, no Cancel reached
\* the promise and its exit reason was not written, no check about a destroyed
\* promise or a second Detach failed, and the tick that follows only answers
\* done, without the link.
C10_UncaughtFailureDetaches ==
    \A p \in Promises :
        (kind[p] = "latent" /\ destroyedBy[p] = "uncaught exception") =>
            /\ ~bAlive[p]
            /\ fired[p] = 1
            /\ ~Pending[p].Promise
            /\ ~bCanceled[p]
            /\ ExitReason[p] = "Normal"
            /\ checkFailed \cap UseAfterDestroy = {}
            /\ (Pending[p].state = "deleted" /\ notifiedReason[p] = "none")
                   => Response[p] = [Done |-> TRUE, Link |-> FALSE]

\* C10 witness: the body threw, the next tick answered done and the action
\* manager deleted the bridge object.
C10_Witness ==
    \E p \in Promises :
        /\ kind[p] = "latent"
        /\ destroyedBy[p] = "uncaught exception"
        /\ Pending[p].state = "deleted"
        /\ notifiedReason[p] = "none"
        /\ Response[p].Done
        /\ fired[p] = 1

\* C11: a latent promise is destroyed on the game thread only, whatever the
\* interleaving of resumes on other threads, ticks and bridge deletions: the
\* game-thread check of ~FLatentPromise never fails; ThreadSafeDestroy called
\* on another thread changes nothing but the game thread's task queue, to
\* which it adds itself; and a promise with such a task queued is still alive
\* when the task runs.
C11_DestroyedOnGameThread ==
    /\ "Unexpected latent coroutine destruction off the game thread" \notin checkFailed
    /\ \A p \in Promises : kind[p] = "latent" =>
           /\ frame[p] = "destroyed" => destroyedOn[p] = "gt"
           /\ bAlive[p] =>
                  ThreadSafeDestroy(World, p, "worker", "Resume")
                      = [World EXCEPT !.gtTasks = @ \cup {<<"ThreadSafeDestroy", p>>}]
           /\ <<"ThreadSafeDestroy", p>> \in gtTasks =>
                  (bAlive[p] /\ frame[p] # "destroyed")

\* C11 witness: a canceled latent promise was resumed on a worker thread and
\* destroyed by the task that ThreadSafeDestroy posted to the game thread.
C11_Witness ==
    \E p \in Promises :
        /\ kind[p] = "latent"
        /\ destroyedBy[p] = "AsyncTask"
        /\ destroyedOn[p] = "gt"
        /\ ~bAlive[p]

\* C12: an async coroutine has entered its body when the call that started it
\* is over, on whichever thread it was called; it is never suspended except on
\* an awaiter that will resume it, never in a final suspension, never
\* canceled; its frame is destroyed exactly when it is complete and the
\* signal fired, by the end of its body or by an exception leaving it; and
\* the end of a running body destroys the frame within that step.
C12_AsyncEagerSynchronousEnd ==
    \A p \in Promises : kind[p] = "async" =>
        /\ bodyRan[p]
        /\ frame[p] \in {"suspended", "running", "destroyed"}
        /\ frame[p] = "suspended" <=> handoff[p]
        /\ LatentFlags[p] = {} /\ ~bCanceled[p]
        /\ frame[p] = "destroyed" <=> ~bAlive[p]
        /\ bAlive[p] <=> fired[p] = 0
        /\ frame[p] = "destroyed" =>
               /\ destroyedBy[p] \in {"final_suspend", "uncaught exception"}
               /\ destroyedOn[p] \in Threads
        /\ bAlive[p] =>
               \A t \in Threads :
                   LET w == BodyStep(World, p, t, "finish")
                   IN ~w.bAlive[p] /\ w.frame[p] = "destroyed" /\ w.fired[p] = 1

\* C12 witness: the body of an async coroutine ended on the game thread, which
\* destroyed its frame and fired its signal.
C12_Witness ==
    \E p \in Promises :
        /\ kind[p] = "async"
        /\ bodyRan[p]
        /\ destroyedBy[p] = "final_suspend"
        /\ destroyedOn[p] = "gt"
        /\ fired[p] = 1
        /\ frame[p] = "destroyed"

\* The inputs of a tick of p's bridge object that the current state allows.
TickInputs(p) ==
    { in \in BOOLEAN \X Outcomes :
        /\ in[1] => (Pending[p].Promise /\ Pending[p].CurrentAwaiter)
        /\ in[2] \in (IF in[1] THEN BodyOutcomes("latent", "gt", FALSE) ELSE {"finish"}) }

\* C13: the response of a tick of a bridge object that still refers to its
\* promise, read off the promise as the tick leaves it: done exactly when the
\* promise is canceled and not detached, or in final suspend; the link is
\* triggered exactly when it is in final suspend; a canceled, detached promise
\* outside final suspend gets neither.  The conditions are checked for every
\* flag set, the whole tick in every reachable state with a registered bridge.
C13_FrameResponse ==
    /\ \A canceled \in BOOLEAN, flags \in SUBSET {LF_Detached, LF_InFinalSuspend} :
           LET detached == LF_Detached \in flags
               final == LF_InFinalSuspend \in flags
           IN /\ RespondDone(canceled, flags) <=> ((canceled /\ ~detached) \/ final)
              /\ RespondLink(flags) <=> final
              /\ (canceled /\ detached /\ ~final) =>
                     (~RespondDone(canceled, flags) /\ ~RespondLink(flags))
    /\ \A p \in Promises :
           (Pending[p].state = "registered" /\ Pending[p].Promise) =>
               \A in \in TickInputs(p) :
                   LET w == UpdateOperation(World, p, in[1], in[2])
                       detached == LF_Detached \in w.LatentFlags[p]
                       final == LF_InFinalSuspend \in w.LatentFlags[p]
                   IN /\ w.Response[p].Done <=> ((w.bCanceled[p] /\ ~detached) \/ final)
                      /\ w.Response[p].Link <=> final
                      /\ w.checkFailed = checkFailed
    /\ \A p \in Promises : Response[p].Link => Response[p].Done

\* C13 witness: a tick resumed the body, which ended; the response was done with
\* the link triggered, and the action manager deleted the bridge object.
C13_Witness ==
    \E p \in Promises :
        /\ Response[p] = [Done |-> TRUE, Link |-> TRUE]
        /\ Pending[p].state = "deleted"
        /\ destroyedBy[p] = "~FPendingLatentCoroutine"

\* C14: a tick evaluated in every reachable state of a registered bridge object
\* that refers to its promise, for ready and not ready and every way the body
\* can go on.  With an awaiter installed and ready, the promise is left as by
\* one run of its body from the suspension, entered with the current awaiter
\* already cleared: an awaiter the body installs is the current one after the
\* tick and no double await is reported; otherwise nothing but the response
\* changes.  An installed awaiter belongs to an attached, suspended, live
\* promise, and a suspended attached promise keeps its awaiter between ticks.
C14_TickResumesOnce ==
    /\ "Unexpected double await" \notin checkFailed
    /\ \A p \in Promises :
           (Pending[p].state = "registered" /\ Pending[p].Promise) =>
               /\ Pending[p].CurrentAwaiter =>
                      (/\ frame[p] = "suspended" /\ ~handoff[p]
                       /\ LatentFlags[p] = {} /\ bAlive[p] /\ ~bCanceled[p])
               /\ (frame[p] = "suspended" /\ ~handoff[p] /\ bAlive[p])
                      => Pending[p].CurrentAwaiter
               /\ \A ready \in BOOLEAN, o \in BodyOutcomes("latent", "gt", FALSE) :
                      LET w == UpdateOperation(World, p, ready, o)
                          once == BodyStep([World EXCEPT !.Pending[p].CurrentAwaiter = FALSE,
                                                         !.bodyRan[p] = TRUE],
                                           p, "gt", o)
                      IN IF Pending[p].CurrentAwaiter /\ ready
                         THEN /\ [w EXCEPT !.Response = Response] = once
                              /\ w.Pending[p].CurrentAwaiter <=> o = "latent"
                              /\ w.handoff[p] <=> o = "async"
                              /\ w.frame[p] = IF o = "finish" THEN "final" ELSE "suspended"
                              /\ w.checkFailed = checkFailed
                         ELSE [w EXCEPT !.Response = Response] = World

\* C14 witness: a started coroutine waits on a frame-driven awaiter; the tick
\* that finds it ready resumes the body, which waits on a new awaiter that is
\* the current one when the tick returns, and the action is not done.
C14_Witness ==
    \E p \in Promises :
        /\ Pending[p].state = "registered"
        /\ Pending[p].CurrentAwaiter
        /\ bodyRan[p]
        /\ LET w == UpdateOperation(World, p, TRUE, "latent")
           IN /\ w.Pending[p].CurrentAwaiter
              /\ w.frame[p] = "suspended"
              /\ ~w.Response[p].Done

\* What holds of a promise whose bridge object was deleted while LF_Detached
\* was set, apart from the call that destroys it in the end.
DetachedDeletionDefers(p) ==
    /\ destroyedBy[p] # "~FPendingLatentCoroutine"
    /\ bCanceled[p]
    /\ (bAlive[p] /\ frame[p] # "final") =>
           (LF_Detached \in LatentFlags[p] /\ frame[p] \in {"suspended", "running"})
    /\ ~bAlive[p] => destroyedOn[p] = "gt"

\* The bridge object's destructor, run in a state where p is detached, records
\* the cancellation and changes nothing else of the promise.
DetachedDeletionOnlyCancels ==
    \A p \in Promises :
        (Pending[p].state = "registered" /\ Pending[p].Promise
         /\ LF_Detached \in LatentFlags[p]) =>
            Pending_Destructor(World, p)
                = [World EXCEPT !.bCanceled[p] = TRUE, !.heldCancel[p] = TRUE,
                                !.Pending[p].state = "deleted"]

C16_FinalSuspendTerminal ==
    /\ [](\A p \in Promises :
             /\ frame[p] = "final" =>
                    (/\ kind[p] = "latent" /\ bAlive[p] /\ ~handoff[p]
                     /\ LatentFlags[p] = {LF_InFinalSuspend})
             /\ LF_InFinalSuspend \in LatentFlags[p] =>
                    (/\ LatentFlags[p] = {LF_InFinalSuspend}
                     /\ frame[p] \in {"final", "destroyed"})
             /\ (kind[p] = "latent" /\ frame[p] = "running") =>
                    BodyStep(World, p, "worker", "finish").LatentFlags[p]
                        = {LF_InFinalSuspend})
    /\ [][\A p \in Promises : frame[p] = "final" =>
             /\ frame'[p] \in {"final", "destroyed"}
             /\ LatentFlags'[p] = {LF_InFinalSuspend}
             /\ ~handoff'[p]
             /\ Pending'[p].CurrentAwaiter = Pending[p].CurrentAwaiter]_vars

\* C16 witness: the body ended on a worker thread after the bridge object had
\* been deleted while the promise was detached; the flags are exactly
\* LF_InFinalSuspend although the promise was never reattached.
C16_Witness ==
    \E p \in Promises :
        /\ frame[p] = "final"
        /\ heldCancel[p]
        /\ LatentFlags[p] = {LF_InFinalSuspend}

InitialCount == IF aggKind = "any" THEN WhenAny(aggN) ELSE WhenAll(aggN)

\* C18: the shared counter only goes down, by one per step, taken by the child
\* that holds the lock and has not decremented before; every child that got
\* past its critical section decremented exactly once; Index is -1 until the
\* one child that finds the counter at exactly zero writes its own index, and
\* is not written again; and a child calls Resume on the parent only after it
\* released the lock it took.
C18_SharedDataDiscipline ==
    /\ [](/\ Data.Count = InitialCount - Cardinality(decremented)
          /\ indexWrites <= 1
          /\ Data.Index = -1 <=> indexWrites = 0
          /\ Data.Index # -1 =>
                 (/\ Data.Index \in decremented
                  /\ Data.Count <= 0
                  /\ aggKind = "any" => Data.Index = firstDec
                  /\ aggKind = "all" => decremented = Children)
          /\ (aggN > 0 /\ Data.Count <= 0) => Data.Index # -1
          /\ ~resumeInLock
          /\ \A i \in Children :
                 /\ childPc[i] = "locked" <=> lockOwner = i
                 /\ i \in decremented <=> childPc[i] \in {"visit", "done"}
          /\ lockOwner # -1 => Data.Lock = "taken")
    /\ [][/\ Data'.Count <= Data.Count
          /\ Data'.Count # Data.Count =>
                 (/\ Data'.Count = Data.Count - 1
                  /\ Data.Lock = "taken"
                  /\ lockOwner \in Children \ decremented
                  /\ decremented' = decremented \cup {lockOwner})
          /\ Data'.Index # Data.Index =>
                 (/\ Data.Index = -1
                  /\ Data'.Index = lockOwner
                  /\ Data'.Count = 0)
          /\ parentResumes' # parentResumes =>
                 (/\ parentResumes' = parentResumes + 1
                  /\ lockOwner = -1 \/ childPc[lockOwner] # "visit"
                  /\ \E i \in Children :
                         /\ childPc[i] = "visit" /\ childPc'[i] = "done"
                         /\ Data.Index = i /\ lockOwner # i)]_vars

\* C18 witness: WhenAny over several children: the counter went below zero,
\* the index is still that of the first child, and the parent was resumed
\* once, by a child that held no lock.
C18_Witness ==
    /\ aggKind = "any"
    /\ Data.Count < 0
    /\ indexWrites = 1
    /\ Data.Index = firstDec
    /\ parentResumes = 1
    /\ ~resumeInLock

\* C19: a latent promise that an awaiter holds, or whose body runs on another
\* thread after the awaiter resumed it there, has LF_Detached set (and no other
\* flag), so every resume and every deletion of the bridge object after the
\* hand-off finds it set; a live promise is detached in no other situation
\* (except while the ThreadSafeDestroy it posted is queued); and the flag is
\* cleared only by the step in which the awaiter resumes the promise on the
\* game thread or by the body reaching final_suspend.
C19_DetachedAcrossHandOff ==
    /\ [](\A p \in Promises : kind[p] = "latent" =>
             /\ handoff[p] => LatentFlags[p] = {LF_Detached}
             /\ frame[p] = "running" => LatentFlags[p] = {LF_Detached}
             /\ (bAlive[p] /\ LF_Detached \in LatentFlags[p]) =>
                    \/ handoff[p]
                    \/ frame[p] = "running"
                    \/ <<"ThreadSafeDestroy", p>> \in gtTasks
             /\ (bAlive[p] /\ frame[p] \in {"suspended", "running"}) =>
                    LET w == TAwaiter_await_suspend(World, p)
                    IN w.handoff[p] /\ LF_Detached \in w.LatentFlags[p])
    /\ [][\A p \in Promises :
             (kind[p] = "latent" /\ LF_Detached \in LatentFlags[p]
              /\ LF_Detached \notin LatentFlags'[p]) =>
                 \/ handoff[p] /\ ~handoff'[p] /\ frame'[p] # "running"
                 \/ frame[p] = "running" /\ frame'[p] = "final"]_vars

\* C19 witness: the awaiter resumed the promise on a worker thread, the bridge
\* object was deleted while the body was running there, and LF_Detached is
\* still set.
C19_Witness ==
    \E p \in Promises :
        /\ kind[p] = "latent"
        /\ frame[p] = "running"
        /\ heldCancel[p]
        /\ Pending[p].state = "deleted"
        /\ LatentFlags[p] = {LF_Detached}

\* The checks that guard the installation of a frame-driven awaiter.
AwaiterChecks ==
    {"Latent awaiters may only be used on the game thread",
     "Unexpected state in latent coroutine",
     "Unexpected double await"}

\* C20: none of the checks of SetCurrentAwaiter ever fails: an awaiter is
\* installed on the game thread, on a promise whose flags are zero, and never
\* over a current one; an installed awaiter belongs to a live latent promise
\* with zero flags.  A body resumed on the game thread by the awaiter that
\* held it installs its next frame-driven awaiter with the flags already
\* zero; an installation from a body running on another thread, or over a
\* current awaiter, is what the checks report.
C20_AwaiterInstalledAttached ==
    /\ checkFailed \cap AwaiterChecks = {}
    /\ \A p \in Promises :
           /\ Pending[p].CurrentAwaiter =>
                  (/\ kind[p] = "latent" /\ Pending[p].state \in {"registered", "deleted"}
                   /\ LatentFlags[p] = {}
                   /\ Pending[p].state = "registered" => (bAlive[p] /\ frame[p] = "suspended"))
           /\ (kind[p] = "latent" /\ handoff[p] /\ ~bCanceled[p]) =>
                  LET w == FLatentPromise_Resume([World EXCEPT !.handoff[p] = FALSE],
                                                 p, "gt", FALSE, "latent")
                  IN /\ w.checkFailed = checkFailed
                     /\ w.Pending[p].CurrentAwaiter
                     /\ w.LatentFlags[p] = {}
           /\ (kind[p] = "latent" /\ frame[p] = "running") =>
                  {"Latent awaiters may only be used on the game thread",
                   "Unexpected state in latent coroutine"}
                      \subseteq SetCurrentAwaiter(World, p, "worker").checkFailed
           /\ (Pending[p].state = "registered" /\ Pending[p].CurrentAwaiter) =>
                  "Unexpected double await"
                      \in Pending_SetCurrentAwaiter(World, p, "gt").checkFailed

\* C20 witness: the first coroutine is suspended on a frame-driven awaiter
\* that was installed with zero flags; the second one is detached, handed to
\* another context, and its bridge object has no awaiter.
C20_Witness ==
    /\ Pending[1].state = "registered"
    /\ Pending[1].CurrentAwaiter
    /\ LatentFlags[1] = {}
    /\ frame[1] = "suspended"
    /\ kind[2] = "latent"
    /\ handoff[2]
    /\ ~Pending[2].CurrentAwaiter

\* C21: the check of SetExitReason never fails; a recorded reason other than
\* Normal is the one the action manager notified the bridge object with, and
\* it never changes again, not even back to Normal; the exit reason changes
\* only from Normal, on a live promise, in the step in which its registered
\* bridge object is notified and deleted.
C21_ExitReasonSetOnce ==
    /\ []("Internal error: setting conflicting exit reasons" \notin checkFailed)
    /\ [](\A p \in Promises : ExitReason[p] # "Normal" =>
             /\ kind[p] = "latent"
             /\ ExitReason[p] = notifiedReason[p]
             /\ Pending[p].state = "deleted")
    /\ [][\A p \in Promises :
             /\ ExitReason[p] # "Normal" => ExitReason'[p] = ExitReason[p]
             /\ ExitReason'[p] # ExitReason[p] =>
                    /\ ExitReason[p] = "Normal"
                    /\ bAlive[p]
                    /\ Pending[p].state = "registered"
                    /\ Pending'[p].state = "deleted"
                    /\ ExitReason'[p] \in {"ActionAborted", "ObjectDestroyed"}]_vars

\* C21 witness: the target object was destroyed while an awaiter held the
\* promise; the reason is recorded and the promise, still alive, keeps it.
C21_Witness ==
    \E p \in Promises :
        /\ ExitReason[p] = "ObjectDestroyed"
        /\ bAlive[p]
        /\ handoff[p]
        /\ Pending[p].state = "deleted"

C24_AbilityIdsFresh ==
    /\ "signed overflow of DummyId" \notin checkFailed
    /\ DummyId = Cardinality({p \in Promises : bAbility[p]})
    /\ \A p \in Promises : bAbility[p] => LatentInfo[p] < DummyId
    /\ \A p, q \in Promises :
           (bAbility[p] /\ bAbility[q] /\ p < q) => LatentInfo[p] < LatentInfo[q]
    /\ LET mk == MakeLatentInfo(World)
       IN \A q \in Promises :
              bAbility[q] =>
                  /\ LatentInfo[q] # mk.UUID
                  /\ ~(Pending[q].state = "registered" /\ LatentInfo[q] = mk.UUID)
    /\ \A p \in Promises :
           (bAbility[p] /\ startOutcome[p] = "duplicate") =>
               \E q \in Promises :
                   /\ q < p
                   /\ kind[q] = "latent"
                   /\ ~bAbility[q]
                   /\ startOutcome[q] = "started"
                   /\ LatentInfo[q] = LatentInfo[p]

\* C24 witness: two ability coroutines were started on the target, the
\* second while the first one's bridge object was registered; both bodies
\* ran and both bridge objects are registered, under different ids.
C24_Witness ==
    \E p, q \in Promises :
        /\ p < q
        /\ bAbility[p]
        /\ bAbility[q]
        /\ Pending[p].state = "registered"
        /\ Pending[q].state = "registered"
        /\ startOutcome[q] = "started"
        /\ bodyRan[q]
        /\ LatentInfo[p] # LatentInfo[q]

\* A suspended latent coroutine, which a ThreadSafeDestroy call on the game
\* thread may destroy.
Destroyable(p) ==
    /\ kind[p] = "latent"
    /\ bAlive[p]
    /\ frame[p] \in {"suspended", "final"}

\* C25: between the handlers, when no destruction is in progress, the global
\* exit-reason scratch variable is Normal and the check after the destroy call
\* has never failed; a ThreadSafeDestroy on the game thread of any suspended
\* latent coroutine, whatever its exit reason, leaves the scratch variable
\* Normal and passes the check, also when the destroyed frame's locals
\* remove another coroutine's registered action and so nest its destruction.
C25_ScratchRestored ==
    /\ GLatentExitReason = "Normal"
    /\ "Internal error: latent exit reason not restored" \notin checkFailed
    /\ \A p \in Promises :
           Destroyable(p) =>
               /\ LET w == ThreadSafeDestroy(World, p, "gt", "Resume")
                  IN /\ ~w.bAlive[p]
                     /\ w.GLatentExitReason = "Normal"
                     /\ w.checkFailed = checkFailed
               /\ \A q \in Promises \ {p}, r \in {"ActionAborted", "ObjectDestroyed"} :
                      Pending[q].state = "registered" =>
                          LET w == NestedThreadSafeDestroy(World, p, q, r, "Resume")
                          IN /\ ~w.bAlive[p]
                             /\ w.GLatentExitReason = "Normal"
                             /\ w.checkFailed = checkFailed

\* C25 witness: the game thread is about to run the posted ThreadSafeDestroy
\* of a coroutine whose action was aborted, while another coroutine is
\* attached with a registered action; destroying the first with the second's
\* destruction nested inside destroys both and leaves the variable Normal.
C25_Witness ==
    \E p, q \in Promises :
        /\ p # q
        /\ <<"ThreadSafeDestroy", p>> \in gtTasks
        /\ Destroyable(p)
        /\ ExitReason[p] = "ActionAborted"
        /\ Pending[q].state = "registered"
        /\ Pending[q].Promise
        /\ LF_Detached \notin LatentFlags[q]
        /\ LET w == NestedThreadSafeDestroy(World, p, q, "ObjectDestroyed", "AsyncTask")
           IN /\ ~w.bAlive[p]
              /\ ~w.bAlive[q]
              /\ w.ExitReason[q] = "ObjectDestroyed"
              /\ w.destroyedBy[q] = "~FPendingLatentCoroutine"
              /\ w.GLatentExitReason = "Normal"

\* C26: each latent promise has exactly one bridge object from the end of its
\* construction on: neither the check before a second CreateLatentAction nor
\* the check at the end of Init's scan ever fails.
C26_ExactlyOneBridge ==
    /\ checkFailed = {}
    /\ \A p \in Promises : kind[p] = "latent" => Pending[p].state = "created"

====
